---- MODULE Spec2Model ----
\* Verification model of the workout tracker: the useTimer hook (hooks/useTimer.ts)
\* and the WorkoutTimer component that drives it and saves sessions through
\* WorkoutService.createWorkoutSession; and the statistics and chart/calendar
\* aggregation over the stored sessions (WorkoutService.getWorkoutStats,
\* Analytics, Calendar).
\*
\* Times are epoch milliseconds as Date.now() returns them.  A handler, the
\* re-render it causes and the effects of that render are one atomic step
\* (JavaScript runs them to completion on one thread).
EXTENDS Integers, Sequences, FiniteSets, TLC

\* ---------------------------------------------------------------- bounds
MaxAdvances == 2            \* number of clock advances explored
MaxCalls == 2               \* number of createWorkoutSession calls explored
MaxWeeks == 8               \* weeks after the first one that hold a stored session
MaxPermRows == 3            \* largest table whose every row order is explored
MaxInputLen == 2            \* longest text typed into the duration field

\* Amounts of real time (ms) that may pass between two events.  500 gives
\* sub-second instants (two of them a whole second), 30000 a long gap in which
\* interval ticks are missed.
Delays == {500, 30000}

\* Ids of the workout types the store returns to loadWorkoutTypes.
WorkoutTypeIds == {"t1", "t2"}

\* ------------------------------------------------------------- constants
TickMs == 1000              \* setInterval(..., 1000)
MsPerSecond == 1000         \* (now - startTime.getTime()) / 1000, elapsedTime * 1000
SecondsPerMinute == 60      \* Math.round(elapsedTime / 60)
MsPerDay == 86400000        \* toISOString: calendar day of a timestamp
MsPerHour == 3600000        \* toISOString: hour field
MsPerMinute == 60000        \* toISOString: minute field

Null == -1                  \* useState<Date | null>(null)

VARIABLES
  now,                  \* the wall clock, Date.now()
  isRunning,            \* useTimer state
  isPaused,             \* useTimer state
  startTime,            \* useTimer state: start of the current segment, or Null
  elapsedTime,          \* useTimer state: the elapsed value the hook returns
  pausedTime,           \* useTimer state: the accumulated baseline
  interval,             \* the setInterval registered by the effect, with its closure
  mounted,              \* the component using the hook is mounted
  loading,              \* WorkoutTimer state
  workoutTypes,         \* WorkoutTimer state: ids of the loaded types
  selectedWorkoutType,  \* WorkoutTimer state: "" when nothing is selected
  calls,                \* sessions handed to createWorkoutSession, with their outcome
  lastOp,               \* history: the last step taken
  runMs,                \* history: ms spent Running since the last start
  runType,              \* history: the type selected when the running timer was started
  runStart,             \* history: the instant handleStart started the current run, or Null
  callRun,              \* history: for each entry of calls, the runStart of the run it came from
  advances,             \* number of clock advances so far
  tz,                   \* the viewer's timezone: local time = UTC + tz (seconds)
  table,                \* store: the rows of workout_sessions
  typeRows,             \* store: the rows of workout_types, newest first
  page,                 \* which other tab is open: "none", "analytics", "calendar", "manual"
  sessions,             \* Analytics / Calendar state: the loaded session list
  loadedTypes,          \* Analytics / Calendar state: the loaded workout types
  stats,                \* Analytics state: the loaded WorkoutStats
  saving,               \* ManualEntry state: a submitted session is being saved
  svc,                  \* the last WorkoutService operation called and how it ended
  selectedDate          \* Calendar state: << >> (null) or <<date>>, the selected date string

timerVars == <<isRunning, isPaused, startTime, elapsedTime, pausedTime>>
compVars == <<loading, workoutTypes, selectedWorkoutType, calls, runType, runStart, callRun>>
storeVars == <<tz, table, typeRows>>
pageVars == <<page, sessions, loadedTypes, stats, saving, svc, selectedDate>>
vars == <<now, isRunning, isPaused, startTime, elapsedTime, pausedTime, interval,
          mounted, loading, workoutTypes, selectedWorkoutType, calls, lastOp,
          runMs, runType, runStart, callRun, advances, tz, table, typeRows, page, sessions,
          loadedTypes, stats, saving, svc, selectedDate>>

\* ------------------------------------------------------- the hook's state
\* The five useState cells as one record.
T == [isRunning |-> isRunning, isPaused |-> isPaused, startTime |-> startTime,
      elapsedTime |-> elapsedTime, pausedTime |-> pausedTime]

InitialTimerState ==
  [isRunning |-> FALSE, isPaused |-> FALSE, startTime |-> Null,
   elapsedTime |-> 0, pausedTime |-> 0]

NoInterval == [active |-> FALSE, due |-> 0, startTime |-> 0, pausedTime |-> 0]

\* startTimer: no guard, all five cells are set.
StartTimerState(t, nowv) ==
  [isRunning |-> TRUE, isPaused |-> FALSE, startTime |-> nowv,
   elapsedTime |-> 0, pausedTime |-> 0]

\* pauseTimer: if (isRunning && !isPaused && startTime) { setPausedTime; setIsPaused }
PauseOverwritesBaseline(t, nowv) ==
  IF t.isRunning /\ ~t.isPaused /\ t.startTime # Null
  THEN [t EXCEPT !.pausedTime = (nowv - t.startTime) \div MsPerSecond, !.isPaused = TRUE]
  ELSE t
PauseTimerState(t, nowv) ==
  IF t.isRunning /\ ~t.isPaused /\ t.startTime # Null
  THEN [t EXCEPT !.pausedTime = ((nowv - t.startTime) \div MsPerSecond) + t.pausedTime,
                 !.isPaused = TRUE]
  ELSE t

\* resumeTimer: if (isPaused) { setStartTime(new Date()); setIsPaused(false) }
ResumeUnguarded(t, nowv) == [t EXCEPT !.startTime = nowv, !.isPaused = FALSE]
ResumeTimerState(t, nowv) ==
  IF t.isPaused THEN [t EXCEPT !.startTime = nowv, !.isPaused = FALSE] ELSE t

\* stopTimer
StopKeepsBaseline(t) ==
  [isRunning |-> FALSE, isPaused |-> FALSE, startTime |-> Null,
   elapsedTime |-> 0, pausedTime |-> t.pausedTime]
StopTimerState(t) ==
  [isRunning |-> FALSE, isPaused |-> FALSE, startTime |-> Null,
   elapsedTime |-> 0, pausedTime |-> 0]

\* resetTimer
ResetKeepsElapsed(t) ==
  [isRunning |-> FALSE, isPaused |-> FALSE, startTime |-> Null,
   elapsedTime |-> t.elapsedTime, pausedTime |-> 0]
ResetTimerState(t) ==
  [isRunning |-> FALSE, isPaused |-> FALSE, startTime |-> Null,
   elapsedTime |-> 0, pausedTime |-> 0]

\* The interval callback: setElapsedTime(floor((now - startTime)/1000) + pausedTime),
\* with startTime and pausedTime as captured when the interval was registered.
TickSubtractsBaseline(t, iv, nowv) ==
  [t EXCEPT !.elapsedTime = ((nowv - iv.startTime) \div MsPerSecond) - iv.pausedTime]
TickState(t, iv, nowv) ==
  [t EXCEPT !.elapsedTime = ((nowv - iv.startTime) \div MsPerSecond) + iv.pausedTime]

\* The effect and its cleanup, run after a render that changed a dependency
\* ([isRunning, isPaused, startTime, pausedTime]): the old interval is cleared
\* and a new one is registered when the timer is running.  A new Date with the
\* same value as the old one leaves the same interval as re-registering would:
\* startTime = now means the old interval was registered at this same instant.
EffectNoCleanup(old, new, iv, nowv) ==
  IF <<old.isRunning, old.isPaused, old.startTime, old.pausedTime>>
       = <<new.isRunning, new.isPaused, new.startTime, new.pausedTime>>
  THEN iv
  ELSE IF new.isRunning /\ ~new.isPaused /\ new.startTime # Null
       THEN [active |-> TRUE, due |-> nowv + TickMs,
             startTime |-> new.startTime, pausedTime |-> new.pausedTime]
       ELSE iv
UseEffect(old, new, iv, nowv) ==
  IF <<old.isRunning, old.isPaused, old.startTime, old.pausedTime>>
       = <<new.isRunning, new.isPaused, new.startTime, new.pausedTime>>
  THEN iv
  ELSE IF new.isRunning /\ ~new.isPaused /\ new.startTime # Null
       THEN [active |-> TRUE, due |-> nowv + TickMs,
             startTime |-> new.startTime, pausedTime |-> new.pausedTime]
       ELSE NoInterval

\* Commit a new hook state: the render and the effect that follows it.
SetTimer(new) ==
  /\ isRunning' = new.isRunning
  /\ isPaused' = new.isPaused
  /\ startTime' = new.startTime
  /\ elapsedTime' = new.elapsedTime
  /\ pausedTime' = new.pausedTime
  /\ interval' = UseEffect(T, new, interval, now)

Running == isRunning /\ ~isPaused
Paused == isPaused
Idle == ~isRunning /\ ~isPaused

\* ------------------------------------------------------------------ Init
WorkoutTimerInit ==
  /\ now = 0
  /\ isRunning = FALSE
  /\ isPaused = FALSE
  /\ startTime = Null
  /\ elapsedTime = 0
  /\ pausedTime = 0
  /\ interval = NoInterval
  /\ mounted = TRUE
  /\ loading = TRUE
  /\ workoutTypes = {}
  /\ selectedWorkoutType = ""
  /\ calls = <<>>
  /\ lastOp = "init"
  /\ runMs = 0
  /\ runType = ""
  /\ runStart = Null
  /\ callRun = <<>>
  /\ advances = 0

\* The statistics a page holds before anything is loaded: useState(null).
NullStats ==
  [totalTime |-> Null, totalSessions |-> Null, trainingDays |-> Null,
   dailyAverage |-> [n |-> Null, d |-> 1], weeklyAverage |-> [n |-> Null, d |-> 1],
   monthlyAverage |-> [n |-> Null, d |-> 1]]

\* No service operation has been called yet.
NoCall == [op |-> "none", requests |-> << >>, fault |-> "", thrown |-> FALSE, data |-> << >>]

\* No data page is open: useState([]) / useState(null).
PagesInit ==
  /\ page = "none"
  /\ sessions = <<>>
  /\ loadedTypes = <<>>
  /\ stats = NullStats
  /\ saving = FALSE
  /\ svc = NoCall
  /\ selectedDate = << >>

Init ==
  /\ WorkoutTimerInit
  /\ tz = 0
  /\ table = {}
  /\ typeRows = <<>>
  /\ PagesInit

\* ------------------------------------------------- clock, tick, teardown
\* Real time passes.  Nothing forces a due tick to fire first: setInterval
\* callbacks run late or not at all while the page is busy or suspended.
\* After the unmount nothing reads the clock any more.
Advance ==
  /\ mounted
  /\ advances < MaxAdvances
  /\ \E d \in Delays :
       /\ now' = now + d
       /\ runMs' = IF Running THEN runMs + d ELSE runMs
  /\ advances' = advances + 1
  /\ lastOp' = "advance"
  /\ UNCHANGED <<timerVars, interval, mounted, compVars>>
  /\ UNCHANGED <<storeVars, pageVars>>

\* The interval callback fires; the interval stays registered (elapsedTime is
\* not a dependency of the effect) and is due again a period later.
Tick ==
  /\ mounted
  /\ interval.active
  /\ now >= interval.due
  /\ LET new == TickState(T, interval, now) IN
       /\ isRunning' = new.isRunning
       /\ isPaused' = new.isPaused
       /\ startTime' = new.startTime
       /\ elapsedTime' = new.elapsedTime
       /\ pausedTime' = new.pausedTime
  /\ interval' = [interval EXCEPT !.due = now + TickMs]
  /\ lastOp' = "tick"
  /\ UNCHANGED <<now, mounted, compVars, runMs, advances>>
  /\ UNCHANGED <<storeVars, pageVars>>

\* The component is unmounted: the effect's cleanup clears the interval.
Unmount ==
  /\ mounted
  /\ mounted' = FALSE
  /\ interval' = UseEffect(T, InitialTimerState, interval, now)
  /\ lastOp' = "unmount"
  /\ UNCHANGED <<now, timerVars, compVars, runMs, advances>>
  /\ UNCHANGED <<storeVars, pageVars>>

\* -------------------------------------------- the hook's API, called freely
startTimer ==
  /\ mounted
  /\ SetTimer(StartTimerState(T, now))
  /\ runMs' = 0
  /\ lastOp' = "startTimer"
  /\ UNCHANGED <<now, mounted, compVars, advances>>
  /\ UNCHANGED <<storeVars, pageVars>>

pauseTimer ==
  /\ mounted
  /\ SetTimer(PauseTimerState(T, now))
  /\ lastOp' = "pauseTimer"
  /\ UNCHANGED <<now, mounted, compVars, runMs, advances>>
  /\ UNCHANGED <<storeVars, pageVars>>

resumeTimer ==
  /\ mounted
  /\ SetTimer(ResumeTimerState(T, now))
  /\ lastOp' = "resumeTimer"
  /\ UNCHANGED <<now, mounted, compVars, runMs, advances>>
  /\ UNCHANGED <<storeVars, pageVars>>

stopTimer ==
  /\ mounted
  /\ SetTimer(StopTimerState(T))
  /\ runMs' = 0
  /\ lastOp' = "stopTimer"
  /\ UNCHANGED <<now, mounted, compVars, advances>>
  /\ UNCHANGED <<storeVars, pageVars>>

resetTimer ==
  /\ mounted
  /\ SetTimer(ResetTimerState(T))
  /\ runMs' = 0
  /\ lastOp' = "resetTimer"
  /\ UNCHANGED <<now, mounted, compVars, advances>>
  /\ UNCHANGED <<storeVars, pageVars>>

NextHook ==
  \/ Advance
  \/ Tick
  \/ Unmount
  \/ startTimer
  \/ pauseTimer
  \/ resumeTimer
  \/ stopTimer
  \/ resetTimer

SpecHook == Init /\ [][NextHook]_vars

\* --------------------------------------------------- WorkoutTimer component
\* Math.round(n / d) for n >= 0, d > 0: nearest integer, halves rounded up.
MathFloorDiv(n, d) == n \div d
MathRoundUp(n, d) == (n + d - 1) \div d
MathRoundDiv(n, d) == (2 * n + d) \div (2 * d)

\* new Date(ms).toISOString(): the UTC fields of the timestamp
\* <<day number, hour, minute, second, millisecond>>.
ToISOString(ms) ==
  <<ms \div MsPerDay, (ms % MsPerDay) \div MsPerHour, (ms % MsPerHour) \div MsPerMinute,
    (ms % MsPerMinute) \div MsPerSecond, ms % MsPerSecond>>

\* The timestamp an ISO string denotes (what the store parses start_time to).
ParseISO(iso) ==
  iso[1] * MsPerDay + iso[2] * MsPerHour + iso[3] * MsPerMinute
    + iso[4] * MsPerSecond + iso[5]

\* Which controls the render offers (the JSX conditions around each button).
SelectAlwaysShown == ~loading
ShowSelect == ~loading /\ ~isRunning /\ ~isPaused
ShowStart == ~loading /\ ~isRunning /\ ~isPaused
ShowPause == ~loading /\ isRunning
ShowFinish == ~loading /\ (isRunning \/ isPaused)
ShowResume == ~loading /\ isPaused
ShowDiscard == ~loading /\ isPaused
\* The status lines: "Workout in progress" and "Workout paused".
ShowInProgress == ~loading /\ isRunning
ShowPausedStatus == ~loading /\ isPaused

\* loadWorkoutTypes settles: the types are set on success, loading ends either way.
loadWorkoutTypes ==
  /\ mounted
  /\ loading
  /\ \E ok \in BOOLEAN : workoutTypes' = IF ok THEN WorkoutTypeIds ELSE workoutTypes
  /\ loading' = FALSE
  /\ lastOp' = "loadWorkoutTypes"
  /\ UNCHANGED <<now, timerVars, interval, mounted, selectedWorkoutType, calls,
                 runMs, runType, runStart, callRun, advances>>
  /\ UNCHANGED <<storeVars, pageVars>>

\* The user picks a type in the Select (onValueChange = setSelectedWorkoutType).
selectWorkoutType ==
  /\ mounted
  /\ ShowSelect
  /\ \E v \in workoutTypes : selectedWorkoutType' = v
  /\ lastOp' = "selectWorkoutType"
  /\ UNCHANGED <<now, timerVars, interval, mounted, loading, workoutTypes, calls,
                 runMs, runType, runStart, callRun, advances>>
  /\ UNCHANGED <<storeVars, pageVars>>

\* handleStart, reached through the Start button (disabled without a selection).
handleStart ==
  /\ mounted
  /\ ShowStart
  /\ selectedWorkoutType # ""
  /\ IF selectedWorkoutType = ""
     THEN UNCHANGED <<timerVars, interval, runMs, runType, runStart>>
     ELSE /\ SetTimer(StartTimerState(T, now))
          /\ runMs' = 0
          /\ runType' = selectedWorkoutType
          /\ runStart' = now
  /\ lastOp' = "handleStart"
  /\ UNCHANGED <<now, mounted, loading, workoutTypes, selectedWorkoutType, calls,
                 callRun, advances>>
  /\ UNCHANGED <<storeVars, pageVars>>

handlePause ==
  /\ mounted
  /\ ShowPause
  /\ SetTimer(PauseTimerState(T, now))
  /\ lastOp' = "handlePause"
  /\ UNCHANGED <<now, mounted, compVars, runMs, advances>>
  /\ UNCHANGED <<storeVars, pageVars>>

handleResume ==
  /\ mounted
  /\ ShowResume
  /\ SetTimer(ResumeTimerState(T, now))
  /\ lastOp' = "handleResume"
  /\ UNCHANGED <<now, mounted, compVars, runMs, advances>>
  /\ UNCHANGED <<storeVars, pageVars>>

\* The session handleFinish hands to WorkoutService.createWorkoutSession.
FinishSession(sel, e, nowv) ==
  [workoutTypeId |-> sel,
   startTime |-> ToISOString(nowv - e * MsPerSecond),
   durationMinutes |-> MathRoundDiv(e, SecondsPerMinute),
   status |-> "pending"]

\* handleFinish up to its await: the two early returns, else the create call.
handleFinish ==
  /\ mounted
  /\ ShowFinish
  /\ IF selectedWorkoutType = "" \/ MathRoundDiv(elapsedTime, SecondsPerMinute) = 0
     THEN UNCHANGED <<calls, callRun>>
     ELSE /\ Len(calls) < MaxCalls
          /\ calls' = Append(calls, FinishSession(selectedWorkoutType, elapsedTime, now))
          /\ callRun' = Append(callRun, runStart)
  /\ lastOp' = "handleFinish"
  /\ UNCHANGED <<now, timerVars, interval, mounted, loading, workoutTypes,
                 selectedWorkoutType, runMs, runType, runStart, advances>>
  /\ UNCHANGED <<storeVars, pageVars>>

\* createWorkoutSession resolves: handleFinish continues after the await with
\* stopTimer(); resetTimer(); setSelectedWorkoutType('').  State updates of an
\* unmounted component are dropped.
createResolved ==
  /\ page # "manual"
  /\ \E i \in 1..Len(calls) :
       /\ calls[i].status = "pending"
       /\ calls' = [calls EXCEPT ![i].status = "stored"]
  /\ IF mounted
     THEN /\ SetTimer(ResetTimerState(StopTimerState(T)))
          /\ selectedWorkoutType' = ""
          /\ runMs' = 0
          /\ runType' = ""
          /\ runStart' = Null
     ELSE UNCHANGED <<timerVars, interval, selectedWorkoutType, runMs, runType, runStart>>
  /\ lastOp' = "createResolved"
  /\ UNCHANGED <<now, mounted, loading, workoutTypes, callRun, advances>>
  /\ UNCHANGED <<storeVars, pageVars>>

\* createWorkoutSession throws (no user, or the insert reports an error): the
\* catch block only reports it.
createRejectedResets ==
  /\ page # "manual"
  /\ \E i \in 1..Len(calls) :
       /\ calls[i].status = "pending"
       /\ calls' = [calls EXCEPT ![i].status = "failed"]
  /\ IF mounted
     THEN /\ SetTimer(ResetTimerState(StopTimerState(T)))
          /\ selectedWorkoutType' = ""
     ELSE UNCHANGED <<timerVars, interval, selectedWorkoutType>>
  /\ lastOp' = "createRejected"
  /\ UNCHANGED <<now, mounted, loading, workoutTypes, runMs, runType, runStart,
                 callRun, advances>>
  /\ UNCHANGED <<storeVars, pageVars>>
createRejected ==
  /\ page # "manual"
  /\ \E i \in 1..Len(calls) :
       /\ calls[i].status = "pending"
       /\ calls' = [calls EXCEPT ![i].status = "failed"]
  /\ lastOp' = "createRejected"
  /\ UNCHANGED <<now, timerVars, interval, mounted, loading, workoutTypes,
                 selectedWorkoutType, runMs, runType, runStart, callRun, advances>>
  /\ UNCHANGED <<storeVars, pageVars>>

\* handleDiscard: stopTimer(); resetTimer(); setSelectedWorkoutType('')
handleDiscard ==
  /\ mounted
  /\ ShowDiscard
  /\ SetTimer(ResetTimerState(StopTimerState(T)))
  /\ selectedWorkoutType' = ""
  /\ runMs' = 0
  /\ runType' = ""
  /\ runStart' = Null
  /\ lastOp' = "handleDiscard"
  /\ UNCHANGED <<now, mounted, loading, workoutTypes, calls, callRun, advances>>
  /\ UNCHANGED <<storeVars, pageVars>>

Next ==
  \/ Advance
  \/ Tick
  \/ Unmount
  \/ loadWorkoutTypes
  \/ selectWorkoutType
  \/ handleStart
  \/ handlePause
  \/ handleResume
  \/ handleFinish
  \/ createResolved
  \/ createRejected
  \/ handleDiscard

Spec == Init /\ [][Next]_vars

\* ============================================== statistics and aggregation
\* A start_time string denotes an instant (new Date(string)); stored start times
\* are whole seconds and are kept here in epoch seconds, so that a difference
\* divided by 1000 * 60 * 60 * 24 ms is the difference divided by SecondsPerDay.
\* Calendar dates are day numbers: UTC day 0 is Thursday 1970-01-01, and a
\* date string (toDateString, the date part of toISOString) is written as the
\* day number it names, which orders and distinguishes dates as the strings do.
SecondsPerDay == 86400      \* 1000 * 60 * 60 * 24 ms
SecondsPerHour == 3600      \* hours of the timezone offsets and start times
DaysPerWeek == 7            \* daysDiff / 7
DaysPerMonth == 30          \* daysDiff / 30
EpochWeekday == 4           \* getDay() of 1970-01-01: Thursday
MaxChartWeeks == 8          \* .slice(-8)
FirstDay == 3               \* the first stored day: Sunday 1970-01-04 (UTC)

\* Viewer timezones: UTC-3, UTC, UTC+2.
TzOffsets == {0 - 3 * SecondsPerHour, 0, 2 * SecondsPerHour}

Session(id, type, day, hour, minutes) ==
  [id |-> id, workoutTypeId |-> type,
   startTime |-> day * SecondsPerDay + hour * SecondsPerHour, durationMinutes |-> minutes]

\* The stored sessions are drawn from this pool.  The first week holds sessions
\* early and late on the same UTC day and two days later; every later week k
\* holds one session, on a weekday and hour that vary with k.  Type "t3" is a
\* deleted workout type.  No two sessions start at the same instant.
FirstWeekPool ==
  { Session(1, "t1", FirstDay, 1, 30),
    Session(2, "t2", FirstDay, 23, 30),
    Session(3, "t3", FirstDay + 2, 12, 30) }
LaterWeeksPool ==
  { Session(3 + k, IF k % 3 = 0 THEN "t3" ELSE IF k % 3 = 1 THEN "t1" ELSE "t2",
            FirstDay + DaysPerWeek * k + (k % 3), 6 + 5 * (k % 4), 15 * (1 + (k % 4)))
    : k \in 1..MaxWeeks }
SessionPool == FirstWeekPool \cup LaterWeeksPool

\* The workout_types tables explored (ordered by created_at descending): both
\* types, one type that the user named "Unknown", two types of the same name,
\* none.  The client creates no type with an empty name.
TypeTables ==
  { << [id |-> "t2", name |-> "Yoga"], [id |-> "t1", name |-> "Run"] >>,
    << [id |-> "t1", name |-> "Unknown"] >>,
    << [id |-> "t2", name |-> "Run"], [id |-> "t1", name |-> "Run"] >>,
    << >> }

\* ------------------------------------------------------------- JS numbers
\* A quotient of two integers is kept exact as n/d; d = 0 stands for NaN or
\* an infinity (what a division by zero or by NaN yields).
Rat(n, d) == [n |-> n, d |-> d]
RatDiv(a, b) == [n |-> a.n * b.d, d |-> a.d * b.n]
\* Math.max(a, b) on n/d numbers with positive denominators
RatNoClamp(a, b) == b
RatMax(a, b) == IF a.n * b.d >= b.n * a.d THEN a ELSE b
RatEq(a, b) == a.d # 0 /\ b.d # 0 /\ a.n * b.d = b.n * a.d
\* Math.ceil(a / b), a >= 0, b > 0
MathFloorQuot(a, b) == a \div b
MathCeilDiv(a, b) == (a + b - 1) \div b

\* ------------------------------------------------------------------ dates
\* new Date(ms).toDateString(): the local calendar date.
ToDateStringUTC(ms) == ms \div SecondsPerDay
ToDateString(ms) == (ms + tz) \div SecondsPerDay
\* new Date(ms).toISOString().split('T')[0]: the UTC calendar date.
ISODate(ms) == ms \div SecondsPerDay
\* new Date(ms).getDay(): the local day of the week, 0 = Sunday.
GetDay(ms) == (((ms + tz) \div SecondsPerDay) + EpochWeekday) % DaysPerWeek

\* ------------------------------------------------------------ the queries
RECURSIVE SortDescending(_)
\* .order('start_time', { ascending: false })
SortDescending(S) ==
  IF S = {} THEN <<>>
  ELSE LET m == CHOOSE x \in S : \A y \in S : y.startTime <= x.startTime
       IN <<m>> \o SortDescending(S \ {m})

RECURSIVE SortById(_)
SortById(S) ==
  IF S = {} THEN <<>>
  ELSE LET m == CHOOSE x \in S : \A y \in S : x.id <= y.id
       IN <<m>> \o SortById(S \ {m})

\* The orders in which a select without .order() may return the rows of S: any
\* order for a table of up to MaxPermRows rows, insertion order above that.
RowOrders(S) ==
  IF Cardinality(S) <= MaxPermRows
  THEN { f \in [1..Cardinality(S) -> S] :
           \A i, j \in 1..Cardinality(S) : i # j => f[i] # f[j] }
  ELSE { SortById(S) }

\* getWorkoutSessions
GetWorkoutSessions(S) == SortDescending(S)

RECURSIVE ReduceDuration(_, _, _)
\* rows.reduce((sum, session) => sum + session.durationMinutes, 0)
ReduceDuration(rows, i, sum) ==
  IF i > Len(rows) THEN sum
  ELSE ReduceDuration(rows, i + 1, sum + rows[i].durationMinutes)

RECURSIVE MathMin(_, _, _)
\* Math.min(...dates.map(d => d.getTime())), from the first row on
FirstRowTime(rows, i, m) == m
MathMin(rows, i, m) ==
  IF i > Len(rows) THEN m
  ELSE MathMin(rows, i + 1, IF rows[i].startTime < m THEN rows[i].startTime ELSE m)

RECURSIVE MathMax(_, _, _)
MathMax(rows, i, m) ==
  IF i > Len(rows) THEN m
  ELSE MathMax(rows, i + 1, IF rows[i].startTime > m THEN rows[i].startTime ELSE m)

ZeroStats ==
  [totalTime |-> 0, totalSessions |-> 0, trainingDays |-> 0,
   dailyAverage |-> Rat(0, 1), weeklyAverage |-> Rat(0, 1),
   monthlyAverage |-> Rat(0, 1)]

\* The statistics of a non-empty row list (getWorkoutStats after its guard).
StatsOfRows(rows) ==
  LET totalTime == ReduceDuration(rows, 1, 0)
      totalSessions == Len(rows)
      uniqueDays == { ToDateString(rows[i].startTime) : i \in 1..Len(rows) }
      trainingDays == Cardinality(uniqueDays)
      dailyAverage == IF trainingDays > 0 THEN Rat(totalTime, trainingDays) ELSE Rat(0, 1)
      minDate == MathMin(rows, 2, rows[1].startTime)
      maxDate == MathMax(rows, 2, rows[1].startTime)
      daysDiff == MathCeilDiv(maxDate - minDate, SecondsPerDay)
      weeksDiff == RatMax(Rat(1, 1), Rat(daysDiff, DaysPerWeek))
      monthsDiff == RatMax(Rat(1, 1), Rat(daysDiff, DaysPerMonth))
  IN [totalTime |-> totalTime, totalSessions |-> totalSessions,
      trainingDays |-> trainingDays, dailyAverage |-> dailyAverage,
      weeklyAverage |-> RatDiv(Rat(totalTime, 1), weeksDiff),
      monthlyAverage |-> RatDiv(Rat(totalTime, 1), monthsDiff)]

\* getWorkoutStats on the rows the select returned
StatsNoEmptyCase(rows) ==
  IF Len(rows) = 0 THEN [ZeroStats EXCEPT !.dailyAverage = Rat(0, 0)]
  ELSE StatsOfRows(rows)
GetWorkoutStats(rows) ==
  IF Len(rows) = 0 THEN ZeroStats ELSE StatsOfRows(rows)

\* ------------------------------------------------------- Analytics charts
\* obj[key] = (obj[key] || 0) + minutes on an object kept as its entries, in
\* insertion order (the keys are not array indices).
AddToEntry(entries, key, minutes) ==
  IF \E i \in 1..Len(entries) : entries[i].key = key
  THEN [i \in 1..Len(entries) |->
          IF entries[i].key = key
          THEN [key |-> key, duration |-> entries[i].duration + minutes]
          ELSE entries[i]]
  ELSE Append(entries, [key |-> key, duration |-> minutes])

\* weekStart.setDate(date.getDate() - date.getDay());
\* weekStart.toISOString().split('T')[0]
WeekKey(ms) == ISODate(ms - GetDay(ms) * SecondsPerDay)

RECURSIVE WeeklyEntries(_, _, _)
WeeklyEntries(list, i, entries) ==
  IF i > Len(list) THEN entries
  ELSE WeeklyEntries(list, i + 1,
         AddToEntry(entries, WeekKey(list[i].startTime), list[i].durationMinutes))

\* entries.slice(-n)
SliceLast(entries, n) ==
  IF Len(entries) <= n THEN entries
  ELSE SubSeq(entries, Len(entries) - n + 1, Len(entries))

\* getWeeklyData: Object.entries(weeklyData).map(...).slice(-8)
GetWeeklyData(list) == SliceLast(WeeklyEntries(list, 1, <<>>), MaxChartWeeks)

\* workoutTypes.find(t => t.id === id)?.name || 'Unknown'
TypeNameOrId(types, id) ==
  IF \E i \in 1..Len(types) : types[i].id = id
  THEN (CHOOSE t \in { types[i] : i \in 1..Len(types) } : t.id = id).name
  ELSE id
TypeName(types, id) ==
  IF \E i \in 1..Len(types) : types[i].id = id
  THEN LET first == CHOOSE i \in 1..Len(types) :
                      /\ types[i].id = id
                      /\ \A j \in 1..(i - 1) : types[j].id # id
       IN IF types[first].name = "" THEN "Unknown" ELSE types[first].name
  ELSE "Unknown"

RECURSIVE TypeEntries(_, _, _, _)
TypeEntries(list, types, i, entries) ==
  IF i > Len(list) THEN entries
  ELSE TypeEntries(list, types, i + 1,
         AddToEntry(entries, TypeName(types, list[i].workoutTypeId),
                    list[i].durationMinutes))

\* getWorkoutTypeData
GetWorkoutTypeData(list, types) == TypeEntries(list, types, 1, <<>>)

\* ----------------------------------------------------------- Calendar cells
\* getSessionsForDate(date): the loaded sessions whose local date is the cell's
GetSessionsForDate(list, date) ==
  SelectSeq(list, LAMBDA session : ToDateString(session.startTime) = date)

\* getTotalDurationForDate
LastDurationForDate(list, date) ==
  LET found == GetSessionsForDate(list, date)
  IN IF Len(found) = 0 THEN 0 ELSE found[Len(found)].durationMinutes
GetTotalDurationForDate(list, date) ==
  ReduceDuration(GetSessionsForDate(list, date), 1, 0)

\* --------------------------------------------------------------- the pages
\* The store holds some of the pool's sessions and one of the type tables; the
\* viewer is in one of the timezones.
PagesSpecInit ==
  /\ WorkoutTimerInit
  /\ tz \in TzOffsets
  /\ table \in SUBSET SessionPool
  /\ typeRows \in TypeTables
  /\ PagesInit

\* Analytics.loadData: the three requests of Promise.all resolve and the three
\* states are set; if one request fails nothing is set.
AnalyticsLoadData ==
  /\ \E ok \in BOOLEAN :
       IF ok
       THEN /\ sessions' = GetWorkoutSessions(table)
            /\ loadedTypes' = typeRows
            /\ \E rows \in RowOrders(table) : stats' = GetWorkoutStats(rows)
            /\ page' = "analytics"
            /\ selectedDate' = << >>
            /\ UNCHANGED <<saving, svc>>
       ELSE UNCHANGED pageVars
  /\ UNCHANGED <<now, timerVars, interval, mounted, compVars, lastOp, runMs, advances,
                 storeVars>>

\* Calendar.loadData: sessions and types are set; the Calendar has no stats.
CalendarLoadData ==
  /\ \E ok \in BOOLEAN :
       IF ok
       THEN /\ sessions' = GetWorkoutSessions(table)
            /\ loadedTypes' = typeRows
            /\ stats' = NullStats
            /\ page' = "calendar"
            /\ selectedDate' = << >>
            /\ UNCHANGED <<saving, svc>>
       ELSE UNCHANGED pageVars
  /\ UNCHANGED <<now, timerVars, interval, mounted, compVars, lastOp, runMs, advances,
                 storeVars>>

NextPages ==
  \/ AnalyticsLoadData
  \/ CalendarLoadData

SpecPages == PagesSpecInit /\ [][NextPages]_vars

\* ================================================================= claims
\* The step just taken was operation op.
OpStep(op) == lastOp' = op

\* C1: with known real time between the calls, the elapsed value exposed
\* immediately before stop (in any state where the timer is Running or Paused,
\* stop being callable next) equals the sum of the durations of the Running
\* intervals, in whole seconds, whatever the Paused intervals lasted.
C1_ElapsedIsRunningTime ==
  (isRunning \/ isPaused) => elapsedTime = runMs \div MsPerSecond

\* C2: start() called while the timer is Running or Paused leaves the
\* accumulated baseline and the elapsed value as they were.
C2_ReentrantStartKeepsTime ==
  [][(OpStep("startTimer") /\ (isRunning \/ isPaused))
       => (pausedTime' = pausedTime /\ elapsedTime' = elapsedTime)]_vars

\* C3: while Running, the exposed elapsed value at any instant equals
\* floor(now - segmentStart) + accumulated baseline, whatever ticks fired.
C3_RunningElapsedIsWallClock ==
  (mounted /\ Running)
    => elapsedTime = ((now - startTime) \div MsPerSecond) + pausedTime

\* C4: while Paused, the exposed elapsed value equals the accumulated baseline
\* frozen at the pause.
C4_PausedElapsedIsBaseline ==
  Paused => elapsedTime = pausedTime

\* C5: pause when not Running and resume when not Paused are no-ops: state,
\* segment start, accumulated baseline, elapsed value (and the registered
\* interval) are unchanged.
C5_WrongStateCallsAreNoOps ==
  [][/\ (OpStep("pauseTimer") /\ ~Running) => UNCHANGED <<timerVars, interval>>
     /\ (OpStep("resumeTimer") /\ ~Paused) => UNCHANGED <<timerVars, interval>>]_vars

\* C5 witness: resume was just called on a Running timer that has an
\* accumulated baseline and a segment begun earlier, and both are still there.
C5_Witness ==
  lastOp = "resumeTimer" /\ Running /\ pausedTime > 0 /\ now > startTime

\* C6: the periodic tick is registered only while the component is mounted and
\* the timer Running, so after pause, stop, reset or unmount no tick can fire;
\* and a tick step never happens outside Running.
C6_TickOnlyWhileRunning ==
  interval.active =>
    /\ mounted /\ Running /\ startTime # Null
    /\ interval.startTime = startTime /\ interval.pausedTime = pausedTime

\* C6 witness: a timer whose tick had fired was just paused and has no interval.
C6_Witness ==
  lastOp = "pauseTimer" /\ Paused /\ elapsedTime > 0 /\ ~interval.active

\* C7: whenever the timer is Idle the elapsed value is 0, and right after
\* reset() the timer is Idle with elapsed 0.
C7_IdleElapsedZero ==
  /\ Idle => elapsedTime = 0
  /\ lastOp = "resetTimer" => (Idle /\ elapsedTime = 0)

\* C7 witness: reset was just applied to a timer that had been run.
C7_Witness ==
  lastOp = "resetTimer" /\ Idle /\ now > 0 /\ elapsedTime = 0

\* C8: stop() and reset() give, from every reachable state, the same state:
\* Idle, baseline 0, no segment start, elapsed 0, no interval; applying either
\* twice is the same as applying it once.
C8_StopResetIdentical ==
  [][/\ StopTimerState(T) = ResetTimerState(T)
     /\ StopTimerState(StopTimerState(T)) = StopTimerState(T)
     /\ ResetTimerState(ResetTimerState(T)) = ResetTimerState(T)
     /\ (OpStep("stopTimer") \/ OpStep("resetTimer"))
          => /\ ~isRunning' /\ ~isPaused'
             /\ startTime' = Null
             /\ pausedTime' = 0
             /\ elapsedTime' = 0
             /\ ~interval'.active]_vars

\* C8 witness: stop was just applied after time had accumulated in the clock.
C8_Witness ==
  lastOp = "stopTimer" /\ Idle /\ pausedTime = 0 /\ startTime = Null /\ advances > 1

\* C9: between a start and the next stop/reset the exposed elapsed value never
\* decreases, under any interleaving of ticks, pause and resume.
C9_ElapsedMonotonic ==
  [][~(OpStep("startTimer") \/ OpStep("stopTimer") \/ OpStep("resetTimer"))
       => elapsedTime' >= elapsedTime]_vars

\* C9 witness: a tick in a second Running segment raised the elapsed value
\* above the baseline carried over the pause.
C9_Witness ==
  lastOp = "tick" /\ pausedTime > 0 /\ elapsedTime > pausedTime

\* C10: Finish pressed with elapsed value e, round(e/60) >= 1 (e >= 30), hands
\* the store a session with durationMinutes = round(e/60), startTime = now - e
\* seconds and workoutTypeId = the type selected when the timer was started.
C10_FinishSession ==
  [][(OpStep("handleFinish") /\ 2 * elapsedTime >= SecondsPerMinute)
       => /\ Len(calls') = Len(calls) + 1
          /\ LET c == calls'[Len(calls')] IN
               /\ SecondsPerMinute * (2 * c.durationMinutes - 1) <= 2 * elapsedTime
               /\ 2 * elapsedTime < SecondsPerMinute * (2 * c.durationMinutes + 1)
               /\ ParseISO(c.startTime) = now - elapsedTime * MsPerSecond
               /\ c.workoutTypeId = runType
               /\ c.status = "pending"]_vars

\* C10 witness: Finish was just pressed at 30..59 elapsed seconds and a
\* one-minute session of the run's type is pending.
C10_Witness ==
  /\ lastOp = "handleFinish"
  /\ elapsedTime >= 30 /\ elapsedTime < 60
  /\ Len(calls) > 0
  /\ calls[Len(calls)].durationMinutes = 1
  /\ calls[Len(calls)].workoutTypeId = runType

\* ================================================= Calendar: selecting a day
\* The month on display: January 1970, days 0..30 since the epoch.
DaysInMonth == 31
DisplayedDays == 0..(DaysInMonth - 1)
\* The stored sessions the displayed month can show, in any timezone explored.
MonthPool == { x \in SessionPool : ISODate(x.startTime) \in DisplayedDays }

\* date.toISOString().split('T')[0] of a cell's date, new Date(year, month, day):
\* the UTC date of the day's local midnight.
CellDateString(day) == ISODate(day * SecondsPerDay - tz)

\* selectedDateSessions: the sessions whose stored start_time text (an ISO
\* string in UTC) starts with the selected date string.
SelectedDateSessions ==
  IF selectedDate = << >> THEN << >>
  ELSE SelectSeq(sessions, LAMBDA session : ISODate(session.startTime) = selectedDate[1])

\* handleDateClick: a click on the selected cell clears the selection.
handleDateClick ==
  /\ page = "calendar"
  /\ \E day \in DisplayedDays :
       selectedDate' = IF selectedDate = << CellDateString(day) >> THEN << >>
                       ELSE << CellDateString(day) >>
  /\ UNCHANGED <<now, timerVars, interval, mounted, compVars, lastOp, runMs, advances,
                 storeVars, page, sessions, loadedTypes, stats, saving, svc>>

CalendarSpecInit ==
  /\ WorkoutTimerInit
  /\ PagesInit
  /\ tz \in TzOffsets
  /\ table \in SUBSET MonthPool
  /\ typeRows \in TypeTables

NextCalendar ==
  \/ CalendarLoadData
  \/ handleDateClick

SpecCalendar == CalendarSpecInit /\ [][NextCalendar]_vars

\* ==================================================== WorkoutService calls
\* A service operation against the store: which requests it issues, in order,
\* and how it ends.  fault names the request the store fails ("" for none);
\* data holds what the operation returns (empty when it throws).
StoreRequests == {"auth.getUser", "insert workout_sessions", "select workout_sessions"}
Users == {Null, 1}

Outcome(op, requests, fault, thrown, data) ==
  [op |-> op, requests |-> requests, fault |-> fault, thrown |-> thrown, data |-> data]

\* getWorkoutStats: one select; if (error) throw error; else the statistics.
StatsCallReturnsZeros(fault, rows) ==
  Outcome("getWorkoutStats", << "select workout_sessions" >>, fault, FALSE,
          << IF fault = "select workout_sessions" THEN ZeroStats ELSE GetWorkoutStats(rows) >>)
GetWorkoutStatsCall(fault, rows) ==
  IF fault = "select workout_sessions"
  THEN Outcome("getWorkoutStats", << "select workout_sessions" >>, fault, TRUE, << >>)
  ELSE Outcome("getWorkoutStats", << "select workout_sessions" >>, fault, FALSE,
               << GetWorkoutStats(rows) >>)

\* getWorkoutSessions: one select ordered by start_time descending.
GetWorkoutSessionsCall(fault, rows) ==
  IF fault = "select workout_sessions"
  THEN Outcome("getWorkoutSessions", << "select workout_sessions" >>, fault, TRUE, << >>)
  ELSE Outcome("getWorkoutSessions", << "select workout_sessions" >>, fault, FALSE,
               << GetWorkoutSessions(rows) >>)

\* createWorkoutSession: auth.getUser(), whose failure leaves user null and
\* throws before any insert; then one insert, whose error is thrown.
CreateWorkoutSessionCall(fault, user, session) ==
  IF fault = "auth.getUser" \/ user = Null
  THEN Outcome("createWorkoutSession", << "auth.getUser" >>, fault, TRUE, << >>)
  ELSE IF fault = "insert workout_sessions"
  THEN Outcome("createWorkoutSession", << "auth.getUser", "insert workout_sessions" >>,
               fault, TRUE, << >>)
  ELSE Outcome("createWorkoutSession", << "auth.getUser", "insert workout_sessions" >>,
               fault, FALSE, << session >>)

\* The store holds first-week sessions, and the client calls the service.
ServiceSpecInit ==
  /\ WorkoutTimerInit
  /\ PagesInit
  /\ tz \in TzOffsets
  /\ table \in SUBSET FirstWeekPool
  /\ typeRows = << >>

getWorkoutStats ==
  /\ \E fault \in {"", "select workout_sessions"}, rows \in RowOrders(table) :
       svc' = GetWorkoutStatsCall(fault, rows)
  /\ UNCHANGED <<now, timerVars, interval, mounted, compVars, lastOp, runMs, advances,
                 storeVars, page, sessions, loadedTypes, stats, saving, selectedDate>>

getWorkoutSessions ==
  /\ \E fault \in {"", "select workout_sessions"} :
       svc' = GetWorkoutSessionsCall(fault, table)
  /\ UNCHANGED <<now, timerVars, interval, mounted, compVars, lastOp, runMs, advances,
                 storeVars, page, sessions, loadedTypes, stats, saving, selectedDate>>

\* The row is stored exactly when the insert succeeds.
createWorkoutSession ==
  /\ \E fault \in {"", "auth.getUser", "insert workout_sessions"}, user \in Users,
        session \in FirstWeekPool \ table :
       /\ svc' = CreateWorkoutSessionCall(fault, user, session)
       /\ table' = IF svc'.thrown THEN table ELSE table \cup {session}
  /\ UNCHANGED <<now, timerVars, interval, mounted, compVars, lastOp, runMs, advances,
                 tz, typeRows, page, sessions, loadedTypes, stats, saving, selectedDate>>

NextService ==
  \/ getWorkoutStats
  \/ getWorkoutSessions
  \/ createWorkoutSession

SpecService == ServiceSpecInit /\ [][NextService]_vars

\* ====================================================== manual entry (form)
\* The tabs render one component at a time: while the Manual tab is open the
\* WorkoutTimer is not mounted.  The form fields (type, date, time, duration)
\* are whatever the user left in them when submitting, so they are inputs of
\* handleSubmit; the handler's own resets of type and duration only change
\* what the next submit starts from.

\* Characters the duration field may hold, and the texts explored.
InputChars == {"0", "7", "-", "."}
DurationInputs == UNION { [1..n -> InputChars] : n \in 0..MaxInputLen }
\* The types the form's select offers, and the date (a day number) and time
\* (an hour) fields; Null is an empty field.
EntryTypeIds == {"t1"}
EntryDates == {Null, 1}
EntryTimes == {Null, 9}

Digits == <<"0", "1", "2", "3", "4", "5", "6", "7", "8", "9">>
IsDigit(c) == \E i \in 1..Len(Digits) : Digits[i] = c
DigitValue(c) == (CHOOSE i \in 1..Len(Digits) : Digits[i] = c) - 1

RECURSIVE SkipWhiteSpace(_)
SkipWhiteSpace(s) ==
  IF Len(s) > 0 /\ Head(s) = " " THEN SkipWhiteSpace(Tail(s)) ELSE s

RECURSIVE ParseDigits(_, _)
\* the value of the longest prefix of decimal digits, after acc
ParseDigits(s, acc) ==
  IF Len(s) > 0 /\ IsDigit(Head(s))
  THEN ParseDigits(Tail(s), 10 * acc + DigitValue(Head(s)))
  ELSE acc

\* parseInt(text): leading white space is skipped, then an optional sign,
\* then decimal digits up to the first other character; NaN without a digit.
ParseInt(text) ==
  LET s == SkipWhiteSpace(text)
      signed == Len(s) > 0 /\ Head(s) \in {"-", "+"}
      body == IF signed THEN Tail(s) ELSE s
      magnitude == ParseDigits(body, 0)
  IN IF Len(body) = 0 \/ ~IsDigit(Head(body))
     THEN [isNaN |-> TRUE, value |-> 0]
     ELSE [isNaN |-> FALSE,
           value |-> IF signed /\ Head(s) = "-" THEN 0 - magnitude ELSE magnitude]

\* isNaN(durationMinutes) || durationMinutes <= 0
RejectsOnlyNaN(parsed) == parsed.isNaN
InvalidDuration(parsed) == parsed.isNaN \/ parsed.value <= 0

\* new Date(`${date}T${time}`).toISOString(): the local date and time as a UTC
\* instant.
EntryStartTime(date, time) ==
  ToISOString(date * MsPerDay + time * MsPerHour - tz * MsPerSecond)

\* The session handleSubmit hands to WorkoutService.createWorkoutSession.
EntrySession(sel, date, time, minutes) ==
  [workoutTypeId |-> sel,
   startTime |-> EntryStartTime(date, time),
   durationMinutes |-> minutes,
   status |-> "pending"]

\* The submit button is disabled while a save is in flight.
ShowSubmit == page = "manual" /\ ~saving

\* handleSubmit up to its await: the two early returns, else setSaving(true)
\* and the create call.
handleSubmit ==
  /\ ShowSubmit
  /\ \E sel \in {""} \cup EntryTypeIds, date \in EntryDates, time \in EntryTimes,
        duration \in DurationInputs :
       IF sel = "" \/ date = Null \/ time = Null \/ duration = << >>
       THEN UNCHANGED <<calls, callRun, saving>>
       ELSE IF InvalidDuration(ParseInt(duration))
       THEN UNCHANGED <<calls, callRun, saving>>
       ELSE /\ Len(calls) < MaxCalls
            /\ calls' = Append(calls, EntrySession(sel, date, time, ParseInt(duration).value))
            /\ callRun' = Append(callRun, Null)
            /\ saving' = TRUE
  /\ lastOp' = "handleSubmit"
  /\ UNCHANGED <<now, timerVars, interval, mounted, loading, workoutTypes,
                 selectedWorkoutType, runMs, runType, runStart, advances>>
  /\ UNCHANGED <<storeVars, page, sessions, loadedTypes, stats, svc, selectedDate>>

\* createWorkoutSession resolves: the form's type and duration are cleared and
\* setSaving(false) runs in the finally block.
submitResolved ==
  /\ page = "manual"
  /\ \E i \in 1..Len(calls) :
       /\ calls[i].status = "pending"
       /\ calls' = [calls EXCEPT ![i].status = "stored"]
  /\ saving' = FALSE
  /\ lastOp' = "submitResolved"
  /\ UNCHANGED <<now, timerVars, interval, mounted, loading, workoutTypes,
                 selectedWorkoutType, runMs, runType, runStart, callRun, advances>>
  /\ UNCHANGED <<storeVars, page, sessions, loadedTypes, stats, svc, selectedDate>>

\* createWorkoutSession throws: the catch block reports it, finally
\* setSaving(false).
submitRejected ==
  /\ page = "manual"
  /\ \E i \in 1..Len(calls) :
       /\ calls[i].status = "pending"
       /\ calls' = [calls EXCEPT ![i].status = "failed"]
  /\ saving' = FALSE
  /\ lastOp' = "submitRejected"
  /\ UNCHANGED <<now, timerVars, interval, mounted, loading, workoutTypes,
                 selectedWorkoutType, runMs, runType, runStart, callRun, advances>>
  /\ UNCHANGED <<storeVars, page, sessions, loadedTypes, stats, svc, selectedDate>>

\* The Manual tab is open and the WorkoutTimer is not mounted.
ManualEntryInit ==
  /\ now = 0
  /\ isRunning = FALSE
  /\ isPaused = FALSE
  /\ startTime = Null
  /\ elapsedTime = 0
  /\ pausedTime = 0
  /\ interval = NoInterval
  /\ mounted = FALSE
  /\ loading = TRUE
  /\ workoutTypes = {}
  /\ selectedWorkoutType = ""
  /\ calls = <<>>
  /\ lastOp = "init"
  /\ runMs = 0
  /\ runType = ""
  /\ runStart = Null
  /\ callRun = <<>>
  /\ advances = 0
  /\ page = "manual"
  /\ sessions = <<>>
  /\ loadedTypes = <<>>
  /\ stats = NullStats
  /\ saving = FALSE
  /\ svc = NoCall
  /\ selectedDate = << >>
  /\ tz \in TzOffsets

\* The user opens the Timer tab or the Manual tab.
EntrySpecInit ==
  /\ \/ WorkoutTimerInit /\ PagesInit /\ tz = 0
     \/ ManualEntryInit
  /\ table = {}
  /\ typeRows = <<>>

NextEntry ==
  \/ Next
  \/ handleSubmit
  \/ submitResolved
  \/ submitRejected

SpecEntry == EntrySpecInit /\ [][NextEntry]_vars

\* ------------------------------------------- statistics: what the claims use
\* Calendar dates that can hold a stored session.
Dates == 0..(FirstDay + DaysPerWeek * (MaxWeeks + 2))

RECURSIVE TotalOf(_)
\* The sum of the durations of a set of sessions.
TotalOf(S) ==
  IF S = {} THEN 0
  ELSE LET x == CHOOSE y \in S : TRUE IN x.durationMinutes + TotalOf(S \ {x})

\* The local calendar date of an instant: the day d with d 00:00 <= local < d+1 00:00.
LocalDateOf(t) ==
  CHOOSE d \in Dates : d * SecondsPerDay <= t + tz /\ t + tz < (d + 1) * SecondsPerDay
LocalDatesOf(S) == { LocalDateOf(x.startTime) : x \in S }

\* ceil of the span in days between the earliest and the latest start time.
DateRangeDays(S) ==
  LET lo == CHOOSE x \in S : \A y \in S : x.startTime <= y.startTime
      hi == CHOOSE x \in S : \A y \in S : y.startTime <= x.startTime
      span == hi.startTime - lo.startTime
  IN CHOOSE D \in Dates : (D - 1) * SecondsPerDay < span /\ span <= D * SecondsPerDay

\* max(1, ceil(D / k))
ClampedCeil(D, k) ==
  CHOOSE W \in 1..(D + 1) : W * k >= D /\ (W = 1 \/ (W - 1) * k < D)

AnalyticsLoaded == page = "analytics"

\* C11 as stated: for a non-empty session set, weeklyAverage = totalTime /
\* max(1, ceil(dateRangeDays / 7)) and monthlyAverage = totalTime /
\* max(1, ceil(dateRangeDays / 30)).
C11_AveragesCeilWeeks ==
  (AnalyticsLoaded /\ table # {}) =>
    /\ RatEq(stats.weeklyAverage,
             Rat(TotalOf(table), ClampedCeil(DateRangeDays(table), DaysPerWeek)))
    /\ RatEq(stats.monthlyAverage,
             Rat(TotalOf(table), ClampedCeil(DateRangeDays(table), DaysPerMonth)))

\* C11 amended: for a non-empty session set, weeklyAverage = totalTime /
\* max(1, dateRangeDays / 7) and monthlyAverage = totalTime /
\* max(1, dateRangeDays / 30), the quotients dateRangeDays / 7 and
\* dateRangeDays / 30 not being rounded; dateRangeDays is the ceiling of the
\* span in days between the earliest and the latest start time.
C11_AveragesFractionalWeeks ==
  (AnalyticsLoaded /\ table # {}) =>
    LET D == DateRangeDays(table)
        total == TotalOf(table)
    IN /\ RatEq(stats.weeklyAverage,
                IF D <= DaysPerWeek THEN Rat(total, 1) ELSE Rat(DaysPerWeek * total, D))
       /\ RatEq(stats.monthlyAverage,
                IF D <= DaysPerMonth THEN Rat(total, 1) ELSE Rat(DaysPerMonth * total, D))

\* C11 witness: statistics are loaded for sessions spanning more than 30 days,
\* a span that is a whole number neither of weeks nor of 30-day months.
C11_Witness ==
  /\ AnalyticsLoaded /\ table # {}
  /\ DateRangeDays(table) > DaysPerMonth
  /\ DateRangeDays(table) % DaysPerWeek # 0
  /\ DateRangeDays(table) % DaysPerMonth # 0
  /\ stats.totalTime > 0

\* C12: the weekly buckets returned for charting are sorted ascending by week
\* start (the loaded list being in the store's order, start time descending).
C12_WeeklyAscending ==
  AnalyticsLoaded =>
    LET w == GetWeeklyData(sessions)
    IN \A i, j \in 1..Len(w) : i < j => w[i].key < w[j].key

\* C13: at most 8 weekly buckets are returned, and when the sessions span more
\* than 8 distinct weeks the buckets kept are the 8 most recent weeks.
C13_KeepsMostRecentWeeks ==
  AnalyticsLoaded =>
    LET w == GetWeeklyData(sessions)
        weeks == { WeekKey(x.startTime) : x \in table }
        recent == { k \in weeks : Cardinality({ k2 \in weeks : k2 > k }) < MaxChartWeeks }
    IN /\ Len(w) <= MaxChartWeeks
       /\ Cardinality(weeks) > MaxChartWeeks => { w[i].key : i \in 1..Len(w) } = recent

\* C14: trainingDays is the number of distinct local calendar dates holding a
\* session, and dailyAverage = totalTime / trainingDays; 30-minute sessions on
\* two dates two days apart give trainingDays = 2 and dailyAverage = 30.
C14_TrainingDaysLocalDates ==
  (AnalyticsLoaded /\ table # {}) =>
    /\ stats.trainingDays = Cardinality(LocalDatesOf(table))
    /\ RatEq(stats.dailyAverage, Rat(TotalOf(table), Cardinality(LocalDatesOf(table))))
    /\ table = { Session(1, "t1", FirstDay, 1, 30), Session(3, "t3", FirstDay + 2, 12, 30) }
         => (stats.trainingDays = 2 /\ RatEq(stats.dailyAverage, Rat(30, 1)))

\* C14 witness: in UTC-3 two sessions of the same UTC day, 22 hours apart, fall
\* on two local dates and count as two training days.
C14_Witness ==
  /\ AnalyticsLoaded
  /\ tz = 0 - 3 * SecondsPerHour
  /\ table = { Session(1, "t1", FirstDay, 1, 30), Session(2, "t2", FirstDay, 23, 30) }
  /\ stats.trainingDays = 2

\* C15: the statistics of an empty session set are all zero (and are numbers).
C15_EmptyStatsZero ==
  (AnalyticsLoaded /\ table = {}) =>
    /\ stats.totalTime = 0 /\ stats.totalSessions = 0 /\ stats.trainingDays = 0
    /\ RatEq(stats.dailyAverage, Rat(0, 1))
    /\ RatEq(stats.weeklyAverage, Rat(0, 1))
    /\ RatEq(stats.monthlyAverage, Rat(0, 1))

\* C15 witness: statistics were loaded from an empty store.
C15_Witness == AnalyticsLoaded /\ table = {} /\ stats.totalSessions = 0

\* C16: for a single session of d minutes totalTime = d, totalSessions = 1,
\* trainingDays = 1 and the daily, weekly and monthly averages are all d.
C16_SingleSessionStats ==
  (AnalyticsLoaded /\ Cardinality(table) = 1) =>
    LET d == (CHOOSE x \in table : TRUE).durationMinutes
    IN /\ stats.totalTime = d /\ stats.totalSessions = 1 /\ stats.trainingDays = 1
       /\ RatEq(stats.dailyAverage, Rat(d, 1))
       /\ RatEq(stats.weeklyAverage, Rat(d, 1))
       /\ RatEq(stats.monthlyAverage, Rat(d, 1))

\* C16 witness: statistics were loaded for a single session of 45 minutes.
C16_Witness ==
  /\ AnalyticsLoaded /\ Cardinality(table) = 1
  /\ stats.totalTime = 45 /\ stats.weeklyAverage.n = 45 * stats.weeklyAverage.d

\* C17: every order of the same rows yields the same statistics.
C17_StatsOrderInvariant ==
  (AnalyticsLoaded /\ Cardinality(table) <= MaxPermRows) =>
    \A rows \in RowOrders(table) : GetWorkoutStats(rows) = stats

\* C17 witness: statistics were loaded for three sessions on three dates that
\* span more than a week, so that the date range enters the averages.
C17_Witness ==
  /\ AnalyticsLoaded /\ Cardinality(table) = 3 /\ Cardinality(RowOrders(table)) = 6
  /\ stats.trainingDays = 3
  /\ DateRangeDays(table) > DaysPerWeek

\* C18: the calendar's per-day totals sum, over all calendar dates, to the
\* totalTime of the statistics (the sum of all the sessions' durations).
C18_DayTotalsSumToTotal ==
  page = "calendar" =>
    LET RECURSIVE SumDays(_)
        SumDays(d) == IF d < 0 THEN 0
                      ELSE GetTotalDurationForDate(sessions, d) + SumDays(d - 1)
        lastDate == FirstDay + DaysPerWeek * (MaxWeeks + 2)
    IN /\ SumDays(lastDate) = GetWorkoutStats(sessions).totalTime
       /\ SumDays(lastDate) = TotalOf(table)

\* C18 witness: the calendar is loaded with two sessions on one local date and
\* a session on another date.
C18_Witness ==
  /\ page = "calendar"
  /\ \E d \in Dates : Len(GetSessionsForDate(sessions, d)) = 2
  /\ Cardinality(LocalDatesOf(table)) > 1

\* The category a session is charted under.
CategoryOf(x) ==
  IF \E i \in 1..Len(loadedTypes) : loadedTypes[i].id = x.workoutTypeId
  THEN (CHOOSE t \in { loadedTypes[i] : i \in 1..Len(loadedTypes) } :
          t.id = x.workoutTypeId).name
  ELSE "Unknown"

\* C19 as stated: a session is charted under "Unknown" exactly when its
\* workoutTypeId resolves to no loaded workout type.
C19_UnknownIffUnresolved ==
  AnalyticsLoaded =>
    \A i \in 1..Len(sessions) :
      (TypeName(loadedTypes, sessions[i].workoutTypeId) = "Unknown")
        <=> ~(\E j \in 1..Len(loadedTypes) : loadedTypes[j].id = sessions[i].workoutTypeId)

\* C19 amended: a session's duration is charted under "Unknown" when its
\* workoutTypeId resolves to no loaded workout type and otherwise under the
\* resolved type's name (which the user may also have chosen to be "Unknown");
\* each category's total is the sum of its sessions' durations, and the
\* category totals sum to the total duration of all sessions.
C19_CategoryTotals ==
  AnalyticsLoaded =>
    LET data == GetWorkoutTypeData(sessions, loadedTypes)
        RECURSIVE SumData(_)
        SumData(i) == IF i = 0 THEN 0 ELSE data[i].duration + SumData(i - 1)
    IN /\ \A i, j \in 1..Len(data) : i # j => data[i].key # data[j].key
       /\ { data[i].key : i \in 1..Len(data) } = { CategoryOf(x) : x \in table }
       /\ \A i \in 1..Len(data) :
            data[i].duration = TotalOf({ x \in table : CategoryOf(x) = data[i].key })
       /\ SumData(Len(data)) = TotalOf(table)

\* C19 witness: the chart holds an "Unknown" category fed by a session of a
\* deleted type next to a category of a resolved type.
C19_Witness ==
  /\ AnalyticsLoaded
  /\ Len(loadedTypes) = 2
  /\ \E x \in table : x.workoutTypeId = "t3"
  /\ \E i \in 1..Len(GetWorkoutTypeData(sessions, loadedTypes)) :
       GetWorkoutTypeData(sessions, loadedTypes)[i].key = "Yoga"
  /\ \E i \in 1..Len(GetWorkoutTypeData(sessions, loadedTypes)) :
       GetWorkoutTypeData(sessions, loadedTypes)[i].key = "Unknown"

C20_TimerSessionHanded ==
  /\ mounted
  /\ lastOp = "handleFinish"
  /\ Len(calls) > 0
  /\ calls[Len(calls)].status = "pending"
  /\ calls[Len(calls)].durationMinutes > 0

\* C21: when the store reports a failure, the service operation issues no
\* retry (no store request is made twice) and throws instead of returning
\* data; in particular getWorkoutStats does not return zero statistics.
C21_FailurePropagates ==
  svc.op # "none" =>
    /\ \A i, j \in 1..Len(svc.requests) : i # j => svc.requests[i] # svc.requests[j]
    /\ \A i \in 1..Len(svc.requests) : svc.requests[i] \in StoreRequests
    /\ (svc.fault # "" /\ \E i \in 1..Len(svc.requests) : svc.requests[i] = svc.fault)
         => (/\ svc.thrown
             /\ svc.data = << >>
             /\ svc.requests[Len(svc.requests)] = svc.fault)

\* C21 witness: the select of getWorkoutStats failed on a non-empty table and
\* the operation threw.
C21_Witness ==
  /\ svc.op = "getWorkoutStats"
  /\ svc.fault = "select workout_sessions"
  /\ svc.thrown
  /\ table # {}

\* C22: a pause from Running sets the accumulated baseline to the previous
\* baseline plus the whole seconds of the segment just ended, and resume keeps
\* the baseline; start at 0 s, pause at 10 s, resume at 20 s, pause at 25 s
\* gives baseline 10 after the first pause and 15 after the second.
C22_BaselineAccumulates ==
  [][/\ (OpStep("pauseTimer") /\ Running /\ startTime # Null) =>
          (/\ pausedTime' = pausedTime + ((now - startTime) \div MsPerSecond)
           /\ isPaused')
     /\ OpStep("resumeTimer") => pausedTime' = pausedTime
     /\ LET started == StartTimerState(InitialTimerState, 0)
            paused == PauseTimerState(started, 10 * MsPerSecond)
            resumed == ResumeTimerState(paused, 20 * MsPerSecond)
            pausedAgain == PauseTimerState(resumed, 25 * MsPerSecond)
        IN paused.pausedTime = 10 /\ resumed.pausedTime = 10 /\ pausedAgain.pausedTime = 15
    ]_vars

\* C22 witness: the second pause of a run added its segment's 30 s to the 30 s
\* of the first segment.
C22_Witness ==
  /\ lastOp = "pauseTimer"
  /\ isPaused
  /\ pausedTime = 60
  /\ interval = NoInterval

\* The Sunday-started local calendar week of an instant, as a week number:
\* day d has weekday (d + EpochWeekday) mod 7, 0 being Sunday.
LocalWeekOf(t) == (LocalDateOf(t) + EpochWeekday) \div DaysPerWeek

\* C23: two sessions land in the same weekly bucket if and only if they fall in
\* the same Sunday-started local calendar week, whatever their times of day,
\* and each bucket's value is the sum of the durations of its sessions.
C23_SundayWeekBuckets ==
  AnalyticsLoaded =>
    LET buckets == WeeklyEntries(sessions, 1, << >>)
    IN /\ \A x, y \in table :
            (WeekKey(x.startTime) = WeekKey(y.startTime))
              <=> (LocalWeekOf(x.startTime) = LocalWeekOf(y.startTime))
       /\ \A i \in 1..Len(buckets) :
            buckets[i].duration
              = TotalOf({ x \in table : WeekKey(x.startTime) = buckets[i].key })

\* C28: for every day of the displayed month and every timezone offset, the
\* total shown in the day's calendar cell equals the sum of the durations of
\* the sessions listed in the detail panel when that day is selected.
C28_CellTotalMatchesPanel ==
  (page = "calendar" /\ selectedDate # << >>) =>
    \A day \in DisplayedDays :
      selectedDate = << CellDateString(day) >> =>
        GetTotalDurationForDate(sessions, day) = ReduceDuration(SelectedDateSessions, 1, 0)

\* C24: each timer run produces at most one stored session, also when Finish
\* is pressed again while an earlier save of the same run is in flight.
C24_OneStoredSessionPerRun ==
  \A i, j \in 1..Len(calls) :
    (i # j /\ calls[i].status = "stored" /\ calls[j].status = "stored"
       /\ callRun[i] # Null /\ callRun[j] # Null)
      => callRun[i] # callRun[j]

\* C25: the completion of a save started by Finish in one run leaves the timer
\* state and the selected type of a later run unchanged.
C25_StaleSaveSparesLaterRun ==
  [][(/\ OpStep("createResolved")
      /\ mounted
      /\ isRunning \/ isPaused
      /\ \E i \in 1..Len(calls) :
           calls[i].status # calls'[i].status /\ callRun[i] # runStart)
       => UNCHANGED <<timerVars, selectedWorkoutType>>]_vars

\* C26: when the create started by Finish fails, no session is stored and the
\* timer keeps its state, baseline, segment start and selected type, so Finish
\* can be pressed again.
C26_FailedSaveKeepsTimer ==
  [][OpStep("createRejected") =>
       /\ UNCHANGED <<timerVars, interval, selectedWorkoutType>>
       /\ { i \in 1..Len(calls') : calls'[i].status = "stored" }
            = { i \in 1..Len(calls) : calls[i].status = "stored" }
       /\ (mounted /\ ShowFinish) => (ShowFinish' /\ selectedWorkoutType' # "")]_vars

\* C26 witness: the save of a paused run failed; the timer is still Paused
\* with its baseline and its type, and Finish is offered.
C26_Witness ==
  /\ lastOp = "createRejected"
  /\ mounted
  /\ isPaused /\ pausedTime = 30 /\ startTime # Null
  /\ selectedWorkoutType # ""
  /\ ShowFinish
  /\ \E i \in 1..Len(calls) : calls[i].status = "failed"
  /\ \A i \in 1..Len(calls) : calls[i].status # "stored"

C29_OneControlGroup ==
  (mounted /\ ~loading) =>
    /\ ShowStart <=> Idle
    /\ ShowPause <=> Running
    /\ ShowResume <=> Paused
    /\ ShowDiscard <=> Paused
    /\ ShowFinish <=> (Running \/ Paused)
    /\ ShowInProgress <=> Running
    /\ ShowPausedStatus <=> Paused

\* C30: the timer is never Running or Paused without a selected workout type,
\* and the selection changes while the timer is Running or Paused only
\* together with a stop/reset.
C30_ActiveTimerHasType ==
  /\ []((isRunning \/ isPaused) => selectedWorkoutType # "")
  /\ [][(selectedWorkoutType' # selectedWorkoutType /\ (isRunning \/ isPaused))
          => (~isRunning' /\ ~isPaused' /\ selectedWorkoutType' = "")]_vars
  /\ [][OpStep("handleStart") => selectedWorkoutType' = selectedWorkoutType]_vars

\* C30 witness: a resolved save stopped the running timer and cleared the
\* selection in the same step.
C30_Witness ==
  /\ lastOp = "createResolved"
  /\ mounted
  /\ Idle
  /\ selectedWorkoutType = ""
  /\ runType = ""
  /\ \E i \in 1..Len(calls) : calls[i].status = "stored"

====
